---- MODULE Spec2Model ----
(***************************************************************************)
(* State-machine model of the timeline page (pages/timeline.tsx), the      *)
(* TimelineContainer component and the draggable EventBox card, of the     *)
(* withAuth guard (components/auth/withAuth.tsx) and of the player         *)
(* management page (pages/admin/player.tsx).                               *)
(*                                                                         *)
(* Strings the code trims, folds or matches are sequences of characters.   *)
(*                                                                         *)
(* Pixel quantities are integers (CSS pixels).  Event dates are the        *)
(* millisecond timestamps `new Date(date).getTime()` yields, abstracted to *)
(* small naturals; the value InvalidDate stands for NaN, the timestamp of  *)
(* a missing or unparsable date string.                                    *)
(***************************************************************************)
EXTENDS Integers, Sequences, FiniteSets, TLC

(***************************************************************************)
(* Bounds of the model.                                                    *)
(***************************************************************************)
MaxDocs == 3        \* documents in one snapshot of the 'events' collection
MaxDate == 3        \* valid timestamps are 1..MaxDate
MaxResets == 2      \* handleReset calls explored (resetKey is unbounded)
MaxSnapshots == 2   \* subscription callbacks explored

(***************************************************************************)
(* Program constants.                                                      *)
(***************************************************************************)
ALL_EVENTS_OPTION_id == "all"      \* config/dropdown: the 'all' sentinel id
CategoryIds == {"cat1", "cat2", "cat3"}  \* ids of the loaded categories

\* config/timelineControls: zoom range, step factor and default (px / year)
MIN_YEAR_SPACING == 40
MAX_YEAR_SPACING == 300
ZOOM_FACTOR == 2
DEFAULT_YEAR_SPACING == 100

InvalidDate == 0    \* NaN: new Date(x).getTime() of an unparsable date

DocIds == {"d1", "d2", "d3"}       \* document ids of the 'events' collection
DateValues == 0..MaxDate           \* InvalidDate or a valid timestamp

VARIABLES
    events,              \* useState(initialEvents)
    selectedCategories,  \* useState([ALL_EVENTS_OPTION.id])
    isSettingsOpen,      \* useState(false)
    isDraggingEnabled,   \* useState(false)
    showEventDates,      \* useState(true)
    resetKey,            \* useState(0)
    yearSpacing,         \* useState(DEFAULT_YEAR_SPACING)
    isLoading,           \* useState(true)
    error,               \* useState(null)
    categories,          \* useState({}): the ids of the loaded categories
    isDropdownOpen,      \* useState(false)
    listening,           \* state of the onSnapshot listener
    snapshot,            \* the documents of the snapshot delivered last
    nSnapshots,          \* subscription callbacks run so far
    columns,             \* TimelineGrid: the column prop of each EventBox
    isDragging,          \* EventBox useState(false), per card
    startX,              \* EventBox useState(0), per card
    transform,           \* style.transform of each card element
    connectorWidth,      \* style.width of each card's connection line
    pointerDown,         \* the mouse button is held
    pressX,              \* clientX of the press while the button is held
    calls,               \* onUpdateColumn calls made by the last mouse handler
    mounted,             \* the timeline page is mounted
    unsubscribeCalls,    \* calls of the function onSnapshot returned
    authChecked,         \* withAuth: the effect has run
    redirect,            \* withAuth: the target of router.replace, if called
    adminMounted,        \* PlayerManagement is mounted
    authReport,          \* what onAuthStateChanged reported last
    isAuthenticated,     \* PlayerManagement useState(false)
    adminIsLoading,      \* PlayerManagement useState(true)
    adminRedirect,       \* PlayerManagement: the target of router.replace
    playerDocs,          \* the documents of the 'players' collection
    players,             \* PlayerManagement useState([])
    selectedPlayer,      \* useState(null): the id of the selected player
    playerForm,          \* useState(initialPlayerForm)
    adminError,          \* PlayerManagement useState('')
    success,             \* PlayerManagement useState('')
    submitCalls,         \* external calls made by the last handleSubmit
    nSubmits,            \* handleSubmit calls run so far
    lookups,             \* uuid input: the profile fetches in flight
    uuidTyped,           \* history: the last edit of the uuid input
    last                 \* history: the handler that ran last, and what it saw

pageVars == <<events, selectedCategories, isSettingsOpen, isDraggingEnabled,
              showEventDates, resetKey, yearSpacing, isLoading, error,
              categories, isDropdownOpen>>
subVars == <<listening, snapshot, nSnapshots>>
boxVars == <<isDragging, startX, transform, connectorWidth>>
dragVars == <<columns, boxVars, pointerDown, pressX, calls>>
lifeVars == <<mounted, unsubscribeCalls, authChecked, redirect>>
authVars == <<adminMounted, authReport, isAuthenticated, adminIsLoading,
              adminRedirect>>
formVars == <<selectedPlayer, playerForm, adminError, success>>
storeVars == <<playerDocs, players, submitCalls, nSubmits>>
lookupVars == <<lookups, uuidTyped>>
adminVars == <<authVars, formVars, storeVars, lookupVars>>
otherVars == <<lifeVars, adminVars>>

NoError == "null"

(***************************************************************************)
(* Sequence helpers.                                                       *)
(***************************************************************************)
Range(s) == {s[i] : i \in 1..Len(s)}

\* Array.prototype.includes
Includes(s, x) == \E i \in 1..Len(s) : s[i] = x

\* Array.prototype.filter((id) => id !== x)
RECURSIVE FilterOut(_, _)
FilterOut(s, x) ==
    IF s = <<>> THEN <<>>
    ELSE IF Head(s) = x THEN FilterOut(Tail(s), x)
         ELSE <<Head(s)>> \o FilterOut(Tail(s), x)

Max(a, b) == IF a >= b THEN a ELSE b
Min(a, b) == IF a <= b THEN a ELSE b

\* history record written by every handler: its name, its argument and the
\* part of the state it started from that its claims speak about
Did(op, arg, pre) == [op |-> op, arg |-> arg, pre |-> pre]

NoPre == "-"

(***************************************************************************)
(* config/timelineControls (imported at timeline.tsx:16-21).               *)
(***************************************************************************)
\* multiplies yearSpacing by the step factor, clamped to the maximum
zoomIn(current) == Min(MAX_YEAR_SPACING, current * ZOOM_FACTOR)

\* divides yearSpacing by the step factor, clamped to the minimum
zoomOut(current) == Max(MIN_YEAR_SPACING, current \div ZOOM_FACTOR)

getDefaultTimelineState ==
    [yearSpacing |-> DEFAULT_YEAR_SPACING,
     selectedCategories |-> <<ALL_EVENTS_OPTION_id>>]

(***************************************************************************)
(* The 'events' subscription (timeline.tsx:68-92).                         *)
(***************************************************************************)
\* a collection query without orderBy yields its documents by ascending id
DocOrder == <<"d1", "d2", "d3">>

\* the data of a document; it is taken to hold no id field of its own
DocData == [date : DateValues]
NoDoc == [date |-> -1]

\* the snapshot of a collection holding the documents id |-> coll[id]
SnapshotOf(coll) ==
    LET ids == SelectSeq(DocOrder, LAMBDA id : coll[id] # NoDoc)
    IN [i \in 1..Len(ids) |->
           [id |-> ids[i], data |-> coll[ids[i]]]]

\* the snapshots of every collection of at most MaxDocs documents
Snapshots ==
    {d \in {SnapshotOf(coll) : coll \in [DocIds -> DocData \cup {NoDoc}]} :
        Len(d) <= MaxDocs}

\* ({ id: doc.id, ...doc.data() })
ToEvent(doc) == [id |-> doc.id, date |-> doc.data.date]

MapDocs(docs) == [i \in 1..Len(docs) |-> ToEvent(docs[i])]

IsNaN(t) == t = InvalidDate

\* (a, b) => new Date(a.date).getTime() - new Date(b.date).getTime();
\* a NaN result is read as +0 by Array.prototype.sort
CompareByDate(a, b) ==
    IF IsNaN(a.date) \/ IsNaN(b.date) THEN 0 ELSE a.date - b.date

\* insertion sort: x goes after the last element that does not compare
\* greater than it
RECURSIVE InsertSorted(_, _)
InsertSorted(s, x) ==
    IF s = <<>> THEN <<x>>
    ELSE IF CompareByDate(s[Len(s)], x) > 0
         THEN InsertSorted(SubSeq(s, 1, Len(s) - 1), x) \o <<s[Len(s)]>>
         ELSE s \o <<x>>

RECURSIVE InsertionSort(_)
InsertionSort(s) ==
    IF s = <<>> THEN <<>>
    ELSE InsertSorted(InsertionSort(SubSeq(s, 1, Len(s) - 1)), s[Len(s)])

\* merge sort: the left head is taken unless the right head compares less
RECURSIVE Merge(_, _)
Merge(l, r) ==
    IF l = <<>> THEN r
    ELSE IF r = <<>> THEN l
    ELSE IF CompareByDate(Head(l), Head(r)) <= 0
         THEN <<Head(l)>> \o Merge(Tail(l), r)
         ELSE <<Head(r)>> \o Merge(l, Tail(r))

RECURSIVE MergeSort(_)
MergeSort(s) ==
    IF Len(s) <= 1 THEN s
    ELSE LET mid == Len(s) \div 2
         IN Merge(MergeSort(SubSeq(s, 1, mid)),
                  MergeSort(SubSeq(s, mid + 1, Len(s))))

\* Array.prototype.sort(comparefn) is a stable sort; which algorithm runs is
\* the engine's choice (insertion sort on short arrays, merge sort).  The two
\* agree whenever the comparator is consistent.
SortOutcomes(s) == {InsertionSort(s), MergeSort(s)}

\* the success callback of onSnapshot
OnSnapshot(docs) ==
    /\ listening = "active"
    /\ nSnapshots < MaxSnapshots
    /\ \E sorted \in SortOutcomes(MapDocs(docs)) : events' = sorted
    /\ isLoading' = FALSE
    /\ snapshot' = docs
    /\ nSnapshots' = nSnapshots + 1
    /\ last' = Did("onSnapshot", "", NoPre)
    /\ UNCHANGED <<selectedCategories, isSettingsOpen, isDraggingEnabled,
                   showEventDates, resetKey, yearSpacing, error, categories,
                   isDropdownOpen, listening, dragVars, otherVars>>

\* mutant: the error callback sets the message and leaves the page loading
OnSnapshotError_KeepsLoading ==
    /\ listening = "active"
    /\ error' = "Failed to load updates. Please refresh the page."
    /\ listening' = "failed"
    /\ last' = Did("onSnapshotError", "", events)
    /\ UNCHANGED <<events, selectedCategories, isSettingsOpen,
                   isDraggingEnabled, showEventDates, resetKey, yearSpacing,
                   isLoading, categories, isDropdownOpen, snapshot,
                   nSnapshots, dragVars, otherVars>>

\* the error callback of onSnapshot; the listener delivers nothing after it
OnSnapshotError ==
    /\ listening = "active"
    /\ error' = "Failed to load updates. Please refresh the page."
    /\ isLoading' = FALSE
    /\ listening' = "failed"
    /\ last' = Did("onSnapshotError", "", events)
    /\ UNCHANGED <<events, selectedCategories, isSettingsOpen,
                   isDraggingEnabled, showEventDates, resetKey, yearSpacing,
                   categories, isDropdownOpen, snapshot, nSnapshots, dragVars, otherVars>>

(***************************************************************************)
(* Category loading (timeline.tsx:49-60).                                  *)
(***************************************************************************)
\* fetchCategories resolves with the categories `cats`, or rejects
LoadCategories(cats) ==
    /\ categories = {} /\ error # "Failed to load categories"
    /\ \/ categories' = cats /\ UNCHANGED error
       \/ error' = "Failed to load categories" /\ UNCHANGED categories
    /\ last' = Did("loadCategories", "", NoPre)
    /\ UNCHANGED <<events, selectedCategories, isSettingsOpen,
                   isDraggingEnabled, showEventDates, resetKey, yearSpacing,
                   isLoading, isDropdownOpen, subVars, dragVars, otherVars>>

(***************************************************************************)
(* Event handlers of the page (timeline.tsx:110-143).  The controls are    *)
(* rendered only once isLoading is false (timeline.tsx:145-147).           *)
(***************************************************************************)
Rendered == mounted /\ ~isLoading

\* the error banner of the page (timeline.tsx:202-213)
ErrorShown == Rendered /\ error # NoError

\* mutant: the sentinel is toggled like a specific category
SelectCategory_AllToggles(prev, categoryId) ==
    IF categoryId # ALL_EVENTS_OPTION_id /\ Includes(prev, ALL_EVENTS_OPTION_id)
    THEN <<categoryId>>
    ELSE LET newCategories ==
                 IF Includes(prev, categoryId)
                 THEN FilterOut(prev, categoryId)
                 ELSE prev \o <<categoryId>>
         IN IF Len(newCategories) = 0
            THEN <<ALL_EVENTS_OPTION_id>>
            ELSE newCategories

\* mutant: a specific category is added next to the sentinel
SelectCategory_KeepsAll(prev, categoryId) ==
    IF categoryId = ALL_EVENTS_OPTION_id THEN <<ALL_EVENTS_OPTION_id>>
    ELSE LET newCategories ==
                 IF Includes(prev, categoryId)
                 THEN FilterOut(prev, categoryId)
                 ELSE prev \o <<categoryId>>
         IN IF Len(newCategories) = 0
            THEN <<ALL_EVENTS_OPTION_id>>
            ELSE newCategories

\* mutant: an emptied selection is left empty
SelectCategory_NoFallback(prev, categoryId) ==
    IF categoryId = ALL_EVENTS_OPTION_id THEN <<ALL_EVENTS_OPTION_id>>
    ELSE IF Includes(prev, ALL_EVENTS_OPTION_id) THEN <<categoryId>>
    ELSE IF Includes(prev, categoryId)
         THEN FilterOut(prev, categoryId)
         ELSE prev \o <<categoryId>>

\* mutant: a specific category is appended without looking for it first
SelectCategory_AlwaysAppends(prev, categoryId) ==
    IF categoryId = ALL_EVENTS_OPTION_id THEN <<ALL_EVENTS_OPTION_id>>
    ELSE IF Includes(prev, ALL_EVENTS_OPTION_id) THEN <<categoryId>>
    ELSE prev \o <<categoryId>>

\* the updater passed to setSelectedCategories
SelectCategory(prev, categoryId) ==
    IF categoryId = ALL_EVENTS_OPTION_id THEN <<ALL_EVENTS_OPTION_id>>
    ELSE IF Includes(prev, ALL_EVENTS_OPTION_id) THEN <<categoryId>>
    ELSE LET newCategories ==
                 IF Includes(prev, categoryId)
                 THEN FilterOut(prev, categoryId)
                 ELSE prev \o <<categoryId>>
         IN IF Len(newCategories) = 0
            THEN <<ALL_EVENTS_OPTION_id>>
            ELSE newCategories

\* the dropdown items exist while the menu is open and categories are loaded
handleCategorySelect(categoryId) ==
    /\ Rendered /\ isDropdownOpen /\ categories # {}
    /\ selectedCategories' = SelectCategory(selectedCategories, categoryId)
    /\ last' = Did("handleCategorySelect", categoryId, selectedCategories)
    /\ UNCHANGED <<events, isSettingsOpen, isDraggingEnabled, showEventDates,
                   resetKey, yearSpacing, isLoading, error, categories,
                   isDropdownOpen, subVars, dragVars, otherVars>>

\* what a zoom handler started from: the spacing, and the zoom before it
ZoomPre ==
    [ys |-> yearSpacing,
     prevOp |-> last.op,
     prevYs |-> IF last.op \in {"handleZoomIn", "handleZoomOut"}
                THEN last.pre.ys ELSE yearSpacing]

\* what handleReset started from
ResetPre ==
    [sel |-> selectedCategories, ys |-> yearSpacing, resetKey |-> resetKey,
     events |-> events, isDraggingEnabled |-> isDraggingEnabled,
     showEventDates |-> showEventDates]

handleZoomIn ==
    /\ Rendered
    /\ yearSpacing' = zoomIn(yearSpacing)
    /\ last' = Did("handleZoomIn", "", ZoomPre)
    /\ UNCHANGED <<events, selectedCategories, isSettingsOpen,
                   isDraggingEnabled, showEventDates, resetKey, isLoading,
                   error, categories, isDropdownOpen, subVars, dragVars, otherVars>>

\* mutant: the zoom-out button zooms in
handleZoomOut_ZoomsIn ==
    /\ Rendered
    /\ yearSpacing' = zoomIn(yearSpacing)
    /\ last' = Did("handleZoomOut", "", ZoomPre)
    /\ UNCHANGED <<events, selectedCategories, isSettingsOpen,
                   isDraggingEnabled, showEventDates, resetKey, isLoading,
                   error, categories, isDropdownOpen, subVars, dragVars, otherVars>>

handleZoomOut ==
    /\ Rendered
    /\ yearSpacing' = zoomOut(yearSpacing)
    /\ last' = Did("handleZoomOut", "", ZoomPre)
    /\ UNCHANGED <<events, selectedCategories, isSettingsOpen,
                   isDraggingEnabled, showEventDates, resetKey, isLoading,
                   error, categories, isDropdownOpen, subVars, dragVars, otherVars>>

\* mutant: the reset leaves the category filter as it is
handleReset_KeepsFilter ==
    /\ Rendered
    /\ resetKey < MaxResets
    /\ yearSpacing' = getDefaultTimelineState.yearSpacing
    /\ resetKey' = resetKey + 1
    /\ last' = Did("handleReset", "", ResetPre)
    /\ UNCHANGED <<events, selectedCategories, isSettingsOpen,
                   isDraggingEnabled, showEventDates, isLoading, error,
                   categories, isDropdownOpen, subVars, dragVars, otherVars>>

handleReset ==
    /\ Rendered
    /\ resetKey < MaxResets
    /\ LET defaultState == getDefaultTimelineState
       IN /\ yearSpacing' = defaultState.yearSpacing
          /\ selectedCategories' = defaultState.selectedCategories
    /\ resetKey' = resetKey + 1
    /\ last' = Did("handleReset", "", ResetPre)
    /\ UNCHANGED <<events, isSettingsOpen, isDraggingEnabled, showEventDates,
                   isLoading, error, categories, isDropdownOpen, subVars, dragVars, otherVars>>

\* onClick of the dropdown header, and the click-outside handler
ToggleDropdown ==
    /\ Rendered
    /\ isDropdownOpen' = ~isDropdownOpen
    /\ last' = Did("toggleDropdown", "", NoPre)
    /\ UNCHANGED <<events, selectedCategories, isSettingsOpen,
                   isDraggingEnabled, showEventDates, resetKey, yearSpacing,
                   isLoading, error, categories, subVars, dragVars, otherVars>>

\* the settings button, and onClose of the popup
SetSettingsOpen(open) ==
    /\ Rendered
    /\ isSettingsOpen = ~open
    /\ isSettingsOpen' = open
    /\ last' = Did("setIsSettingsOpen", "", NoPre)
    /\ UNCHANGED <<events, selectedCategories, isDraggingEnabled,
                   showEventDates, resetKey, yearSpacing, isLoading, error,
                   categories, isDropdownOpen, subVars, dragVars, otherVars>>

\* onDraggingToggle={setIsDraggingEnabled} of the settings popup
onDraggingToggle(v) ==
    /\ Rendered /\ isSettingsOpen
    /\ isDraggingEnabled' = v
    /\ last' = Did("onDraggingToggle", "", NoPre)
    /\ UNCHANGED <<events, selectedCategories, isSettingsOpen, showEventDates,
                   resetKey, yearSpacing, isLoading, error, categories,
                   isDropdownOpen, subVars, dragVars, otherVars>>

\* onShowEventDatesToggle={setShowEventDates} of the settings popup
onShowEventDatesToggle(v) ==
    /\ Rendered /\ isSettingsOpen
    /\ showEventDates' = v
    /\ last' = Did("onShowEventDatesToggle", "", NoPre)
    /\ UNCHANGED <<events, selectedCategories, isSettingsOpen,
                   isDraggingEnabled, resetKey, yearSpacing, isLoading, error,
                   categories, isDropdownOpen, subVars, dragVars, otherVars>>

(***************************************************************************)
(* What the page hands to TimelineContainer (timeline.tsx:244-252) and     *)
(* what TimelineContainer hands on to TimelineGrid.                        *)
(***************************************************************************)
ContainerProps ==
    [events |-> events,
     selectedCategories |-> selectedCategories,
     isDraggingEnabled |-> isDraggingEnabled,
     yearSpacing |-> yearSpacing,
     onReset |-> resetKey,
     showEventDates |-> showEventDates,
     isPreview |-> FALSE]

\* only the destructured props are forwarded
TimelineContainer(props) ==
    [visibleCategories |-> props.selectedCategories,
     isDraggingEnabled |-> props.isDraggingEnabled,
     yearSpacing |-> props.yearSpacing,
     onReset |-> props.onReset,
     showEventDates |-> props.showEventDates]

GridProps == TimelineContainer(ContainerProps)

(***************************************************************************)
(* TimelineGrid: the place of an event along the year axis.  A date is a   *)
(* whole number of date units, UnitsPerYear of them to the year, so that   *)
(* the years since the epoch are the fraction (date - epoch) /             *)
(* UnitsPerYear; a position is kept exact as its multiple by UnitsPerYear. *)
(***************************************************************************)
UnitsPerYear == 2        \* date units in one year
TimelineEpoch == 0       \* the date the axis starts at
TimelineOrigin == 100    \* the fixed origin offset, in pixels

\* mutant: the years since the epoch are taken from the calendar year alone
ScaledPosition_WholeYears(date, spacing) ==
    TimelineOrigin * UnitsPerYear
        + ((date - TimelineEpoch) \div UnitsPerYear) * UnitsPerYear * spacing

\* UnitsPerYear times (origin + years since the epoch * yearSpacing)
ScaledPosition(date, spacing) ==
    TimelineOrigin * UnitsPerYear + (date - TimelineEpoch) * spacing

\* the position the grid gives a date under the spacing it is handed
GridPosition(date) == ScaledPosition(date, GridProps.yearSpacing)

(***************************************************************************)
(* EventBox: one draggable card per event the grid shows.  The state       *)
(* startY, currentX and currentY is left out: startY mirrors startX, and   *)
(* currentX and currentY are written by the handlers and read by nothing.  *)
(***************************************************************************)
BoxOrder == <<"d1", "d2">>     \* the cards, in render order
BoxIds == Range(BoxOrder)      \* event.id of each card

baseOffset == 210
columnWidth == 220
lastColumn == 19               \* "Assuming 20 columns (0-19)"

\* the position prop (the card's place along the year axis)
position(id) == IF id = "d1" THEN 100 ELSE 300

leftPosition(column) == baseOffset + (column * columnWidth)
connectionLineWidth(column) == leftPosition(column) - 100

\* Math.round(a / b) for integers a and b > 0: halves round up
RoundDiv(a, b) == (2 * a + b) \div (2 * b)

\* mutant: only the lower bound is applied
BoundColumn_NoUpper(newColumn) == Max(0, newColumn)

\* Math.max(0, Math.min(newColumn, 19))
BoundColumn(newColumn) == Max(0, Min(newColumn, lastColumn))

\* the column handleMouseUp computes from the release position
ReleaseColumn(clientX, sx) ==
    LET finalX == clientX - sx
        relativeX == finalX - baseOffset
        newColumn == RoundDiv(relativeX, columnWidth)
    IN BoundColumn(newColumn)

NoTransform == [kind |-> "none", px |-> 0]
TranslateX(px) == [kind |-> "translateX", px |-> px]

\* getBoundingClientRect().left of a card at rest: the viewport position of
\* the grid's left edge plus the card's CSS left
RectLeft(gridLeft, column) == gridLeft + leftPosition(column)

GridLefts == {0, 40}        \* the grid flush left, or behind a margin
OffsetXs == {0, 60}         \* where inside the card the press lands
PointerXs == {-3000, 319, 320, 9000}   \* clientX of moves, releases

\* mutant: the press starts a drag whether or not dragging is enabled
handleMouseDown_IgnoresFlag(id, offsetX, gridLeft) ==
    /\ Rendered
    /\ ~pointerDown
    /\ LET left == RectLeft(gridLeft, columns[id])
           clientX == left + offsetX
       IN /\ pointerDown' = TRUE
          /\ pressX' = clientX
          /\ startX' = [startX EXCEPT ![id] = clientX - left]
          /\ isDragging' = [isDragging EXCEPT ![id] = TRUE]
          /\ last' = Did("handleMouseDown", id, NoPre)
    /\ calls' = <<>>
    /\ UNCHANGED <<pageVars, subVars, columns, transform, connectorWidth,
                   otherVars>>

\* onMouseDown of card `id`, the pointer offsetX pixels inside the card
handleMouseDown(id, offsetX, gridLeft) ==
    /\ Rendered
    /\ ~pointerDown
    /\ LET left == RectLeft(gridLeft, columns[id])
           clientX == left + offsetX
       IN /\ pointerDown' = TRUE
          /\ pressX' = clientX
          /\ IF isDraggingEnabled
             THEN /\ startX' = [startX EXCEPT ![id] = clientX - left]
                  /\ isDragging' = [isDragging EXCEPT ![id] = TRUE]
             ELSE UNCHANGED <<startX, isDragging>>
          /\ last' = Did("handleMouseDown", id, NoPre)
    /\ calls' = <<>>
    /\ UNCHANGED <<pageVars, subVars, columns, transform, connectorWidth,
                   otherVars>>

\* the window mousemove listener of every card that is being dragged
handleMouseMove(clientX) ==
    /\ Rendered
    /\ \E id \in BoxIds : isDragging[id]
    /\ transform' = [id \in BoxIds |->
                       IF isDragging[id]
                       THEN TranslateX(clientX - startX[id]
                                       - leftPosition(columns[id]))
                       ELSE transform[id]]
    /\ connectorWidth' = [id \in BoxIds |->
                       IF isDragging[id]
                       THEN leftPosition(columns[id])
                            + (clientX - startX[id] - leftPosition(columns[id]))
                            - 100
                       ELSE connectorWidth[id]]
    /\ calls' = <<>>
    /\ last' = Did("handleMouseMove", "", NoPre)
    /\ UNCHANGED <<pageVars, subVars, columns, isDragging, startX,
                   pointerDown, pressX, otherVars>>

\* mutant: every card answers the release, dragged or not
RECURSIVE UpdateCalls_AllCards(_, _)
UpdateCalls_AllCards(order, clientX) ==
    IF order = <<>> THEN <<>>
    ELSE LET id == Head(order)
             boundedColumn == ReleaseColumn(clientX, startX[id])
         IN (IF boundedColumn # columns[id]
             THEN <<[eventId |-> id, newColumn |-> boundedColumn,
                     position |-> position(id)]>>
             ELSE <<>>) \o UpdateCalls_AllCards(Tail(order), clientX)

\* mutant: the update is issued without comparing with the current column
RECURSIVE UpdateCalls_NoCompare(_, _)
UpdateCalls_NoCompare(order, clientX) ==
    IF order = <<>> THEN <<>>
    ELSE LET id == Head(order)
             boundedColumn == ReleaseColumn(clientX, startX[id])
         IN (IF isDragging[id]
             THEN <<[eventId |-> id, newColumn |-> boundedColumn,
                     position |-> position(id)]>>
             ELSE <<>>) \o UpdateCalls_NoCompare(Tail(order), clientX)

\* the onUpdateColumn calls of one release, card by card
RECURSIVE UpdateCalls(_, _)
UpdateCalls(order, clientX) ==
    IF order = <<>> THEN <<>>
    ELSE LET id == Head(order)
             boundedColumn == ReleaseColumn(clientX, startX[id])
         IN (IF isDragging[id] /\ boundedColumn # columns[id]
             THEN <<[eventId |-> id, newColumn |-> boundedColumn,
                     position |-> position(id)]>>
             ELSE <<>>) \o UpdateCalls(Tail(order), clientX)

\* TimelineGrid's onUpdateColumn: the card is given the new column
RECURSIVE onUpdateColumn(_, _)
onUpdateColumn(cols, cs) ==
    IF cs = <<>> THEN cols
    ELSE onUpdateColumn([cols EXCEPT ![Head(cs).eventId] = Head(cs).newColumn],
                        Tail(cs))

\* what a release started from, and whether the pointer is where it pressed
MouseUpPre(clientX) ==
    [dragging |-> {id \in BoxIds : isDragging[id]},
     columns |-> columns, atPress |-> clientX = pressX]

\* the window mouseup listener of every card that is being dragged; the
\* button is released whether or not a card listens
handleMouseUp(clientX) ==
    /\ Rendered
    /\ pointerDown
    /\ pointerDown' = FALSE
    /\ isDragging' = [id \in BoxIds |-> FALSE]
    /\ calls' = UpdateCalls(BoxOrder, clientX)
    /\ columns' = onUpdateColumn(columns, calls')
    /\ transform' = [id \in BoxIds |->
                       IF isDragging[id] THEN NoTransform ELSE transform[id]]
    \* the handler restores the old width; the render that follows a column
    \* change writes the width of the new column
    /\ connectorWidth' = [id \in BoxIds |->
                       IF isDragging[id]
                       THEN IF columns'[id] # columns[id]
                            THEN connectionLineWidth(columns'[id])
                            ELSE connectionLineWidth(columns[id])
                       ELSE connectorWidth[id]]
    /\ pressX' = 0
    /\ last' = Did("handleMouseUp", clientX, MouseUpPre(clientX))
    /\ UNCHANGED <<pageVars, subVars, startX, otherVars>>

(***************************************************************************)
(* withAuth (components/auth/withAuth.tsx), which wraps the timeline page  *)
(* (timeline.tsx:279), and the unmounting of the page.                     *)
(***************************************************************************)
NoItem == "null"     \* localStorage.getItem of a key that is not stored
StoredItems == {NoItem, "true"}    \* the 'isAuthenticated' item
NoRedirect == "none"               \* router.replace was not called

\* !isAuthenticated: null and the empty string are falsy
Falsy(item) == item = NoItem \/ item = ""

\* mutant: the test of the flag is inverted
withAuthEffect_Inverted(item) ==
    /\ mounted /\ ~authChecked
    /\ authChecked' = TRUE
    /\ redirect' = IF ~Falsy(item) THEN "/" ELSE redirect
    /\ last' = Did("withAuthEffect", item, NoPre)
    /\ UNCHANGED <<pageVars, subVars, dragVars, mounted, unsubscribeCalls,
                   adminVars>>

\* the effect of the wrapper, run once the page has mounted in the browser;
\* `item` is what localStorage.getItem('isAuthenticated') returns
withAuthEffect(item) ==
    /\ mounted /\ ~authChecked
    /\ authChecked' = TRUE
    /\ redirect' = IF Falsy(item) THEN "/" ELSE redirect
    /\ last' = Did("withAuthEffect", item, NoPre)
    /\ UNCHANGED <<pageVars, subVars, dragVars, mounted, unsubscribeCalls,
                   adminVars>>

\* mutant: the effect returns no cleanup, the listener stays attached
Unmount_KeepsListening ==
    /\ mounted
    /\ mounted' = FALSE
    /\ last' = Did("unmount", "", NoPre)
    /\ UNCHANGED <<pageVars, subVars, dragVars, unsubscribeCalls, authChecked,
                   redirect, adminVars>>

\* the page unmounts: the cleanup of the subscription effect (timeline.tsx:91)
\* calls unsubscribe, after which the listener is detached and Firestore
\* delivers neither snapshots nor errors to it
Unmount ==
    /\ mounted
    /\ mounted' = FALSE
    /\ unsubscribeCalls' = unsubscribeCalls + 1
    /\ listening' = "unsubscribed"
    /\ last' = Did("unmount", "", NoPre)
    /\ UNCHANGED <<pageVars, snapshot, nSnapshots, dragVars, authChecked,
                   redirect, adminVars>>

(***************************************************************************)
(* Strings of the player form, as sequences of characters.                 *)
(***************************************************************************)
RECURSIVE Rep(_, _)
Rep(c, n) == IF n = 0 THEN <<>> ELSE <<c>> \o Rep(c, n - 1)

\* a string of the shape 8-4-4-4-12 whose digits are all `c`
UuidOf(c) ==
    Rep(c, 8) \o <<"-">> \o Rep(c, 4) \o <<"-">> \o Rep(c, 4) \o <<"-">>
        \o Rep(c, 4) \o <<"-">> \o Rep(c, 12)

UpperLetters ==
    <<"A", "B", "C", "D", "E", "F", "G", "H", "I", "J", "K", "L", "M",
      "N", "O", "P", "Q", "R", "S", "T", "U", "V", "W", "X", "Y", "Z">>
LowerLetters ==
    <<"a", "b", "c", "d", "e", "f", "g", "h", "i", "j", "k", "l", "m",
      "n", "o", "p", "q", "r", "s", "t", "u", "v", "w", "x", "y", "z">>
Digits == {"0", "1", "2", "3", "4", "5", "6", "7", "8", "9"}
HexDigits == Digits \cup {"a", "b", "c", "d", "e", "f"}
                    \cup {"A", "B", "C", "D", "E", "F"}
WhiteSpace == {" "}

IsUpper(c) == \E i \in 1..Len(UpperLetters) : UpperLetters[i] = c

toLowerChar(c) ==
    IF IsUpper(c)
    THEN LowerLetters[CHOOSE i \in 1..Len(UpperLetters) : UpperLetters[i] = c]
    ELSE c

\* String.prototype.toLowerCase
RECURSIVE toLowerCase(_)
toLowerCase(s) ==
    IF s = <<>> THEN <<>>
    ELSE <<toLowerChar(Head(s))>> \o toLowerCase(Tail(s))

RECURSIVE trimStart(_)
trimStart(s) ==
    IF s # <<>> /\ Head(s) \in WhiteSpace THEN trimStart(Tail(s)) ELSE s

RECURSIVE trimEnd(_)
trimEnd(s) ==
    IF s # <<>> /\ s[Len(s)] \in WhiteSpace
    THEN trimEnd(SubSeq(s, 1, Len(s) - 1))
    ELSE s

\* String.prototype.trim
trim(s) == trimEnd(trimStart(s))

\* !s?.trim(): the string is missing, empty or all white space
IsBlank(s) == trim(s) = <<>>

\* /^[0-9a-f]{8}-[0-9a-f]{4}-[0-9a-f]{4}-[0-9a-f]{4}-[0-9a-f]{12}$/i .test(s)
uuidRegex(s) ==
    /\ Len(s) = 36
    /\ \A i \in 1..36 : IF i \in {9, 14, 19, 24}
                        THEN s[i] = "-"
                        ELSE s[i] \in HexDigits

\* the collation order of the characters used: white space, punctuation,
\* digits, letters; case is compared only between otherwise equal strings
Collation ==
    <<" ", "-", "0", "1", "2", "3", "4", "5", "6", "7", "8", "9">>
        \o LowerLetters

Rank(c) == CHOOSE i \in 1..Len(Collation) : Collation[i] = toLowerChar(c)

RECURSIVE ComparePrimary(_, _)
ComparePrimary(a, b) ==
    IF a = <<>> THEN (IF b = <<>> THEN 0 ELSE -1)
    ELSE IF b = <<>> THEN 1
    ELSE IF Rank(Head(a)) < Rank(Head(b)) THEN -1
    ELSE IF Rank(Head(a)) > Rank(Head(b)) THEN 1
    ELSE ComparePrimary(Tail(a), Tail(b))

\* of two strings that differ in case only, the one with the lower-case
\* letter at the first difference comes first
RECURSIVE CompareCase(_, _)
CompareCase(a, b) ==
    IF a = <<>> \/ b = <<>> THEN 0
    ELSE IF Head(a) = Head(b) THEN CompareCase(Tail(a), Tail(b))
    ELSE IF IsUpper(Head(b)) THEN -1 ELSE 1

\* String.prototype.localeCompare
localeCompare(a, b) ==
    IF ComparePrimary(a, b) # 0 THEN ComparePrimary(a, b)
    ELSE CompareCase(a, b)

(***************************************************************************)
(* The player management page (pages/admin/player.tsx, which the source    *)
(* holds at timeline.tsx:281-1035): the 'players' collection.              *)
(***************************************************************************)
MaxAlts == 2        \* rows of the alt accounts list of the form
MaxSubmits == 2     \* handleSubmit calls explored

Ann == <<"A", "n", "n">>
Bob == <<"B", "o", "b">>
Rob == <<"R", "o", "b">>
Zed == <<"Z", "e", "d">>
Blank == <<" ">>

NoRole == "null"         \* role: null
NoSelection == "null"    \* selectedPlayer: null

PlayerOrder == <<"p1", "p2">>      \* the document ids, ascending

\* the collection at the start: Ann, and Bob who was called Rob before
InitialPlayerDocs ==
    [p1 |-> [currentIgn |-> Ann, uuid |-> UuidOf("a"), pastIgns |-> <<>>,
             role |-> NoRole, altAccounts |-> <<>>, mainAccount |-> <<>>,
             lastUpdated |-> 0],
     p2 |-> [currentIgn |-> Bob, uuid |-> UuidOf("b"), pastIgns |-> <<Rob>>,
             role |-> NoRole, altAccounts |-> <<>>, mainAccount |-> <<>>,
             lastUpdated |-> 0]]

\* snapshot.docs.map(doc => ({ id: doc.id, ...doc.data() }))
ToPlayer(docs, id) ==
    [id |-> id, currentIgn |-> docs[id].currentIgn, uuid |-> docs[id].uuid,
     pastIgns |-> docs[id].pastIgns, role |-> docs[id].role,
     altAccounts |-> docs[id].altAccounts,
     mainAccount |-> docs[id].mainAccount]

MapPlayerDocs(docs) == [i \in 1..Len(PlayerOrder) |-> ToPlayer(docs, PlayerOrder[i])]

RECURSIVE InsertPlayer(_, _)
InsertPlayer(sorted, p) ==
    IF sorted = <<>> THEN <<p>>
    ELSE IF localeCompare(p.currentIgn, Head(sorted).currentIgn) < 0
         THEN <<p>> \o sorted
         ELSE <<Head(sorted)>> \o InsertPlayer(Tail(sorted), p)

\* fetchedPlayers.sort((a, b) => a.currentIgn.localeCompare(b.currentIgn));
\* the comparator is consistent, so every stable sort gives this result
RECURSIVE SortPlayers(_, _)
SortPlayers(s, n) ==
    IF n = 0 THEN <<>> ELSE InsertPlayer(SortPlayers(s, n - 1), s[n])

PlayersOf(docs) == SortPlayers(MapPlayerDocs(docs), Len(PlayerOrder))

\* the callback of the 'players' subscription, run with the first snapshot
\* and after every change of the collection
PlayersSnapshot ==
    /\ adminMounted
    /\ players # PlayersOf(playerDocs)
    /\ players' = PlayersOf(playerDocs)
    /\ last' = Did("playersSnapshot", "", NoPre)
    /\ UNCHANGED <<pageVars, subVars, dragVars, lifeVars, lookupVars,
                   authVars, formVars,
                   playerDocs, submitCalls, nSubmits>>

(***************************************************************************)
(* The authentication check of the page (timeline.tsx:342-355) and what    *)
(* it renders (timeline.tsx:543-544).                                      *)
(***************************************************************************)
AuthReports == {"user", "none"}    \* the listener is passed a user, or null

\* the callback of onAuthStateChanged, run with the initial auth state and
\* after every sign-in and sign-out
onAuthStateChanged(user) ==
    /\ adminMounted
    /\ user # authReport
    /\ authReport' = user
    /\ IF user = "user"
       THEN isAuthenticated' = TRUE /\ UNCHANGED adminRedirect
       ELSE adminRedirect' = "/admin/password" /\ UNCHANGED isAuthenticated
    /\ adminIsLoading' = FALSE
    /\ last' = Did("onAuthStateChanged", user, NoPre)
    /\ UNCHANGED <<pageVars, subVars, dragVars, lifeVars, lookupVars,
                   adminMounted,
                   formVars, storeVars>>

\* the navigation router.replace started has finished: the page is unmounted
AdminNavigated ==
    /\ adminMounted
    /\ adminRedirect # NoRedirect
    /\ adminMounted' = FALSE
    /\ last' = Did("adminNavigated", "", NoPre)
    /\ UNCHANGED <<pageVars, subVars, dragVars, lifeVars, lookupVars,
                   authReport,
                   isAuthenticated, adminIsLoading, adminRedirect, formVars,
                   storeVars>>

\* what the page shows
AdminView ==
    IF ~adminMounted THEN "nothing"
    ELSE IF adminIsLoading THEN "loading"
    ELSE IF ~isAuthenticated THEN "nothing"
    ELSE "content"

AdminContent == AdminView = "content"

(***************************************************************************)
(* The player form (timeline.tsx:398-411, 578-587, 885-970).               *)
(***************************************************************************)
initialPlayerForm ==
    [id |-> "", currentIgn |-> <<>>, uuid |-> <<>>, pastIgns |-> <<>>,
     role |-> NoRole, altAccounts |-> <<>>, mainAccount |-> <<>>]

\* a click on row i of the players list; only the id of selectedPlayer is
\* ever read
handlePlayerSelect(i) ==
    /\ AdminContent
    /\ i \in 1..Len(players)
    /\ selectedPlayer' = players[i].id
    /\ playerForm' = players[i]
    /\ adminError' = ""
    /\ success' = ""
    /\ last' = Did("handlePlayerSelect", "", NoPre)
    /\ UNCHANGED <<pageVars, subVars, dragVars, lifeVars, lookupVars,
                   authVars,
                   storeVars>>

\* the 'Add New Player' button
addNewPlayer ==
    /\ AdminContent
    /\ selectedPlayer' = NoSelection
    /\ playerForm' = initialPlayerForm
    /\ last' = Did("addNewPlayer", "", NoPre)
    /\ UNCHANGED <<pageVars, subVars, dragVars, lifeVars, lookupVars,
                   authVars,
                   adminError, success, storeVars>>

\* onChange of the 'Current IGN' input
handleFormChange(value) ==
    /\ AdminContent
    /\ playerForm' = [playerForm EXCEPT !.currentIgn = value]
    /\ last' = Did("handleFormChange", "", NoPre)
    /\ UNCHANGED <<pageVars, subVars, dragVars, lifeVars, lookupVars,
                   authVars,
                   selectedPlayer, adminError, success, storeVars>>

\* the alt accounts section replaces the main account section when the form
\* holds no main account
AltSection == AdminContent /\ playerForm.mainAccount = <<>>

\* the 'Add Alt Account' button
addAltAccount ==
    /\ AltSection
    /\ Len(playerForm.altAccounts) < MaxAlts
    /\ playerForm' = [playerForm EXCEPT !.altAccounts = Append(@, <<>>)]
    /\ last' = Did("addAltAccount", "", NoPre)
    /\ UNCHANGED <<pageVars, subVars, dragVars, lifeVars, lookupVars,
                   authVars,
                   selectedPlayer, adminError, success, storeVars>>

\* the 'Remove' button of row index
removeAltAccount(index) ==
    /\ AltSection
    /\ index \in 1..Len(playerForm.altAccounts)
    /\ playerForm' =
           [playerForm EXCEPT !.altAccounts =
               SubSeq(@, 1, index - 1) \o SubSeq(@, index + 1, Len(@))]
    /\ last' = Did("removeAltAccount", "", NoPre)
    /\ UNCHANGED <<pageVars, subVars, dragVars, lifeVars, lookupVars,
                   authVars,
                   selectedPlayer, adminError, success, storeVars>>

\* p.currentIgn.toLowerCase() === inputValue.toLowerCase() ||
\* p.pastIgns?.some(ign => ign.toLowerCase() === inputValue.toLowerCase())
MatchesName(p, inputValue) ==
    \/ toLowerCase(p.currentIgn) = toLowerCase(inputValue)
    \/ \E k \in 1..Len(p.pastIgns) :
           toLowerCase(p.pastIgns[k]) = toLowerCase(inputValue)

\* mutant: the past names are not searched
ResolveAlt_CurrentNameOnly(inputValue, ps) ==
    IF uuidRegex(inputValue) THEN inputValue
    ELSE LET found == {k \in 1..Len(ps) :
                 toLowerCase(ps[k].currentIgn) = toLowerCase(inputValue)}
         IN IF found # {}
            THEN ps[CHOOSE k \in found : \A j \in found : k <= j].uuid
            ELSE inputValue

\* what onChange of an alt account input stores for the value typed;
\* players.find returns the first match
ResolveAlt(inputValue, ps) ==
    IF uuidRegex(inputValue) THEN inputValue
    ELSE LET found == {k \in 1..Len(ps) : MatchesName(ps[k], inputValue)}
         IN IF found # {}
            THEN ps[CHOOSE k \in found : \A j \in found : k <= j].uuid
            ELSE inputValue

\* onChange of the alt account input of row index
altOnChange(index, inputValue) ==
    /\ AltSection
    /\ index \in 1..Len(playerForm.altAccounts)
    /\ playerForm' = [playerForm EXCEPT
                         !.altAccounts[index] = ResolveAlt(inputValue, players)]
    /\ last' = Did("altOnChange", "",
                   [index |-> index, inputValue |-> inputValue])
    /\ UNCHANGED <<pageVars, subVars, dragVars, lifeVars, lookupVars,
                   authVars,
                   selectedPlayer, adminError, success, storeVars>>

(***************************************************************************)
(* handleSubmit (timeline.tsx:413-521).  The handler works on the form and *)
(* the selection of the render it was bound in, so that its awaits are     *)
(* taken in one step; what the awaited calls answer is an input.           *)
(***************************************************************************)
\* the accounts the identity services know
Accounts ==
    {[uuid |-> UuidOf("a"), name |-> Ann],
     [uuid |-> UuidOf("b"), name |-> Bob],
     [uuid |-> UuidOf("c"), name |-> Zed]}

\* a fetch rejects, or resolves with a response that is not ok
FailedResponses ==
    {[kind |-> "notOk", name |-> <<>>, uuid |-> <<>>],
     [kind |-> "throws", name |-> <<>>, uuid |-> <<>>]}

OkResponse(a) == [kind |-> "ok", name |-> a.name, uuid |-> a.uuid]

\* fetch(`https://sessionserver.mojang.com/session/minecraft/profile/${uuid}`)
ProfileResponses(uuid) ==
    FailedResponses \cup
        {OkResponse(a) : a \in {b \in Accounts : b.uuid = toLowerCase(uuid)}}

\* fetch(`https://api.ashcon.app/mojang/v2/user/${currentIgn.trim()}`)
UserResponses(ign) ==
    FailedResponses \cup
        {OkResponse(a) : a \in {b \in Accounts :
                                   toLowerCase(b.name) = toLowerCase(ign)}}

CallOutcomes == {"ok", "throws"}   \* an awaited write resolves or rejects

\* Array.prototype.filter(s => s.trim() !== '')
RECURSIVE NonBlank(_)
NonBlank(s) ==
    IF s = <<>> THEN <<>>
    ELSE IF IsBlank(Head(s)) THEN NonBlank(Tail(s))
         ELSE <<Head(s)>> \o NonBlank(Tail(s))

\* updateDoc(playerRef, { currentIgn, uuid, pastIgns, role, lastUpdated })
updateDoc(docs, id, data) ==
    [docs EXCEPT ![id] = [@ EXCEPT !.currentIgn = data.currentIgn,
                                   !.uuid = data.uuid,
                                   !.pastIgns = data.pastIgns,
                                   !.role = data.role,
                                   !.lastUpdated = @ + 1]]

\* lib/playerUtils: the record of the player called ign takes the role and
\* the alts, and the record of every alt references the main account; the
\* creation of a record for a new name is left out
updatePlayerData(docs, ign, role, alts) ==
    LET mains == {id \in DOMAIN docs : docs[id].currentIgn = ign}
    IN [id \in DOMAIN docs |->
           IF id \in mains
           THEN [docs[id] EXCEPT !.role = role, !.altAccounts = alts]
           ELSE IF mains # {} /\ Includes(alts, docs[id].uuid)
                THEN [docs[id] EXCEPT
                         !.mainAccount = docs[CHOOSE m \in mains : TRUE].uuid]
                ELSE docs[id]]

\* what a run of the handler leaves: the messages, the form, the selection,
\* the collection, the external calls made and the answer of the lookup
Finished(err, ok, form, sel, docs, cs, lookup) ==
    [error |-> err, success |-> ok, form |-> form, selected |-> sel,
     docs |-> docs, calls |-> cs, lookup |-> lookup]

\* lines 477-511: the writes
SubmitWrites(form, sel, docs, cs, lookup, upd, proc) ==
    LET base == sel # NoSelection
        cs1 == IF base THEN Append(cs, "updateDoc") ELSE cs
        docs1 == IF base /\ upd = "ok"
                 THEN updateDoc(docs, sel,
                          [currentIgn |-> trim(form.currentIgn),
                           uuid |-> trim(form.uuid),
                           pastIgns |-> NonBlank(form.pastIgns),
                           role |-> form.role])
                 ELSE docs
        cs2 == Append(cs1, "updatePlayerData")
    IN IF base /\ upd # "ok"
       THEN Finished("Failed to save player", "", form, sel, docs, cs1,
                     lookup)
       ELSE IF proc # "ok"
       THEN Finished("Failed to process alt accounts", "", form, sel, docs1,
                     cs2, lookup)
       ELSE Finished("",
                     IF base THEN "Player updated successfully"
                             ELSE "Player added successfully",
                     initialPlayerForm, NoSelection,
                     updatePlayerData(docs1, trim(form.currentIgn), form.role,
                                      NonBlank(form.altAccounts)),
                     cs2, lookup)

\* cleanAltAccounts.includes(currentIgn.trim()) || .includes(uuid.trim())
IsSelfAlt(cleanAltAccounts, form) ==
    \/ Includes(cleanAltAccounts, trim(form.currentIgn))
    \/ Includes(cleanAltAccounts, trim(form.uuid))

\* mutant: only neighbouring rows are compared, and only from the second on
HasDuplicates_SkipsFirst(cleanAltAccounts) ==
    \E k \in 2..(Len(cleanAltAccounts) - 1) :
        cleanAltAccounts[k] = cleanAltAccounts[k + 1]

\* [...new Set(cleanAltAccounts)].length !== cleanAltAccounts.length
HasDuplicates(cleanAltAccounts) ==
    Cardinality(Range(cleanAltAccounts)) # Len(cleanAltAccounts)

\* lines 463-475: the validation of the alt accounts
SubmitValidate(form, sel, docs, cs, lookup, upd, proc) ==
    IF IsSelfAlt(NonBlank(form.altAccounts), form)
    THEN Finished("A player cannot be their own alt account", "", form, sel,
                  docs, cs, lookup)
    ELSE IF HasDuplicates(NonBlank(form.altAccounts))
    THEN Finished("Duplicate alt accounts are not allowed", "", form, sel,
                  docs, cs, lookup)
    ELSE SubmitWrites(form, sel, docs, cs, lookup, upd, proc)

\* mutant: a response that is not ok is read like an ok one
LookupFailed_ThrowOnly(response) == response.kind = "throws"

\* the fetch rejected, or response.ok is false
LookupFailed(response) == response.kind # "ok"

\* lines 429-461: the lookups; the name or the UUID a lookup returns is
\* assigned to the form object itself
SubmitLookups(form, sel, docs, profile, user, upd, proc) ==
    LET needName == ~IsBlank(form.uuid) /\ IsBlank(form.currentIgn)
        needUuid == ~IsBlank(form.currentIgn) /\ IsBlank(form.uuid)
    IN IF needName
       THEN IF LookupFailed(profile)
            THEN Finished(IF profile.kind = "throws"
                          THEN "Failed to fetch player data from UUID"
                          ELSE "Invalid UUID provided",
                          "", form, sel, docs, <<"fetch profile">>,
                          profile.kind)
            ELSE SubmitValidate([form EXCEPT !.currentIgn = profile.name],
                                sel, docs, <<"fetch profile">>, profile.kind,
                                upd, proc)
       ELSE IF needUuid
       THEN IF LookupFailed(user)
            THEN Finished(IF user.kind = "throws"
                          THEN "Failed to fetch player data from IGN"
                          ELSE "Invalid IGN provided",
                          "", form, sel, docs, <<"fetch user">>, user.kind)
            ELSE SubmitValidate([form EXCEPT !.uuid = user.uuid],
                                sel, docs, <<"fetch user">>, user.kind,
                                upd, proc)
       ELSE SubmitValidate(form, sel, docs, <<>>, "none", upd, proc)

\* lines 419-423: the check of the required fields
SubmitOutcome(form, sel, docs, profile, user, upd, proc) ==
    IF IsBlank(form.currentIgn) /\ IsBlank(form.uuid)
    THEN Finished("Either Current IGN or UUID is required", "", form, sel,
                  docs, <<>>, "none")
    ELSE SubmitLookups(form, sel, docs, profile, user, upd, proc)

\* what a run of the handler started from
SubmitPre(lookup) ==
    [form |-> playerForm, selected |-> selectedPlayer, docs |-> playerDocs,
     lookup |-> lookup]

\* onSubmit of the form; the browser does not submit while the required
\* 'Current IGN' input (timeline.tsx:711) is empty
handleSubmit(profile, user, upd, proc) ==
    /\ AdminContent
    /\ playerForm.currentIgn # <<>>
    /\ nSubmits < MaxSubmits
    /\ LET out == SubmitOutcome(playerForm, selectedPlayer, playerDocs,
                                profile, user, upd, proc)
       IN /\ adminError' = out.error
          /\ success' = out.success
          /\ playerForm' = out.form
          /\ selectedPlayer' = out.selected
          /\ playerDocs' = out.docs
          /\ submitCalls' = out.calls
          /\ last' = Did("handleSubmit", "", SubmitPre(out.lookup))
    /\ nSubmits' = nSubmits + 1
    /\ UNCHANGED <<pageVars, subVars, dragVars, lifeVars, lookupVars,
                   authVars, players>>

(***************************************************************************)
(* The UUID input of the form (timeline.tsx:667-699).  Its onChange stores *)
(* the value typed and, for a value of the UUID format, awaits the profile *)
(* of that UUID; the part after the await runs when the response arrives,  *)
(* which is a step of its own.                                             *)
(***************************************************************************)
MaxUuidEdits == 3   \* edits of the UUID input explored

\* no edit was made yet; else the number of the edit, the value typed, and
\* what its lookup answered ("none": no lookup was made for the value)
NotTyped == [n |-> 0, value |-> <<>>, answer |-> "none"]

\* the part of onChange up to the await
uuidOnChange(uuid) ==
    /\ AdminContent
    /\ uuidTyped.n < MaxUuidEdits
    /\ playerForm' = [playerForm EXCEPT !.uuid = uuid]
    /\ lookups' = IF uuidRegex(uuid)
                  THEN lookups \cup {[n |-> uuidTyped.n + 1, uuid |-> uuid]}
                  ELSE lookups
    /\ uuidTyped' = [n |-> uuidTyped.n + 1, value |-> uuid,
                     answer |-> IF uuidRegex(uuid) THEN "pending" ELSE "none"]
    /\ last' = Did("uuidOnChange", "", NoPre)
    /\ UNCHANGED <<pageVars, subVars, dragVars, lifeVars, authVars,
                   selectedPlayer, adminError, success, storeVars>>

\* the part of onChange after the await, for the fetch `lookup`: an ok
\* response stores its name together with the UUID the fetch was made for
uuidResponse(lookup, response) ==
    /\ adminMounted
    /\ lookup \in lookups
    /\ lookups' = lookups \ {lookup}
    /\ playerForm' = IF response.kind = "ok"
                     THEN [playerForm EXCEPT !.currentIgn = response.name,
                                             !.uuid = lookup.uuid]
                     ELSE playerForm
    /\ uuidTyped' = IF lookup.n = uuidTyped.n
                    THEN [uuidTyped EXCEPT !.answer = response.kind]
                    ELSE uuidTyped
    /\ last' = Did("uuidResponse", "", NoPre)
    /\ UNCHANGED <<pageVars, subVars, dragVars, lifeVars, authVars,
                   selectedPlayer, adminError, success, storeVars>>

InitialEvents == {<<>>, <<[id |-> "d1", date |-> 1]>>}

Init ==
    /\ events \in InitialEvents
    /\ selectedCategories = <<ALL_EVENTS_OPTION_id>>
    /\ isSettingsOpen = FALSE
    /\ isDraggingEnabled = FALSE
    /\ showEventDates = TRUE
    /\ resetKey = 0
    /\ yearSpacing = DEFAULT_YEAR_SPACING
    /\ isLoading = TRUE
    /\ error = NoError
    /\ categories = {}
    /\ isDropdownOpen = FALSE
    /\ listening = "active"
    /\ snapshot = <<>>
    /\ nSnapshots = 0
    /\ columns = [id \in BoxIds |-> 0]
    /\ isDragging = [id \in BoxIds |-> FALSE]
    /\ startX = [id \in BoxIds |-> 0]
    /\ transform = [id \in BoxIds |-> NoTransform]
    /\ connectorWidth = [id \in BoxIds |-> connectionLineWidth(0)]
    /\ pointerDown = FALSE
    /\ pressX = 0
    /\ calls = <<>>
    /\ mounted = TRUE
    /\ unsubscribeCalls = 0
    /\ authChecked = FALSE
    /\ redirect = NoRedirect
    /\ adminMounted = TRUE
    /\ authReport = "unknown"
    /\ isAuthenticated = FALSE
    /\ adminIsLoading = TRUE
    /\ adminRedirect = NoRedirect
    /\ playerDocs = InitialPlayerDocs
    /\ players = <<>>
    /\ selectedPlayer = NoSelection
    /\ playerForm = initialPlayerForm
    /\ adminError = ""
    /\ success = ""
    /\ submitCalls = <<>>
    /\ nSubmits = 0
    /\ lookups = {}
    /\ uuidTyped = NotTyped
    /\ last = Did("init", "", NoPre)

vars == <<pageVars, subVars, dragVars, otherVars, last>>

\* the items of the dropdown: allCategories (timeline.tsx:62-65, 170)
DropdownItems == {ALL_EVENTS_OPTION_id} \cup categories

\* small input sets of the specifications about the controls
FewSnapshots == {<<>>, <<[id |-> "d2", data |-> [date |-> 2]]>>}

NextFilter ==
    \/ \E docs \in FewSnapshots : OnSnapshot(docs)
    \/ OnSnapshotError
    \/ LoadCategories(CategoryIds)
    \/ ToggleDropdown
    \/ \E c \in DropdownItems : handleCategorySelect(c)
    \/ handleReset

SpecFilter == Init /\ [][NextFilter]_vars

NextControls ==
    \/ \E docs \in FewSnapshots : OnSnapshot(docs)
    \/ LoadCategories({"cat1"})
    \/ ToggleDropdown
    \/ \E c \in DropdownItems : handleCategorySelect(c)
    \/ handleZoomIn
    \/ handleZoomOut
    \/ handleReset
    \/ \E b \in BOOLEAN : SetSettingsOpen(b)
    \/ \E b \in BOOLEAN : onDraggingToggle(b)
    \/ \E b \in BOOLEAN : onShowEventDatesToggle(b)

SpecControls == Init /\ [][NextControls]_vars

NextSnapshot ==
    \/ \E docs \in Snapshots : OnSnapshot(docs)
    \/ OnSnapshotError

SpecSnapshot == Init /\ [][NextSnapshot]_vars

NextDrag ==
    \/ OnSnapshot(<<>>)
    \/ \E b \in BOOLEAN : SetSettingsOpen(b)
    \/ \E b \in BOOLEAN : onDraggingToggle(b)
    \/ \E id \in BoxIds, o \in OffsetXs, g \in GridLefts :
           handleMouseDown(id, o, g)
    \/ \E x \in PointerXs \cup {pressX} : handleMouseMove(x)
    \/ \E x \in PointerXs \cup {pressX} : handleMouseUp(x)

SpecDrag == Init /\ [][NextDrag]_vars

\* the life of the timeline page: mounted behind withAuth, fed by the
\* subscription, used, unmounted
NextLifecycle ==
    \/ \E item \in StoredItems : withAuthEffect(item)
    \/ \E docs \in FewSnapshots : OnSnapshot(docs)
    \/ OnSnapshotError
    \/ Unmount
    \/ ToggleDropdown
    \/ handleZoomIn
    \/ handleZoomOut

SpecLifecycle == Init /\ [][NextLifecycle]_vars

\* the player management page starts without server-rendered events
InitAdmin == Init /\ events = <<>>

\* what is typed into the form of the player management page
IgnInputs == {Blank, Zed}
AltInputs ==
    {UuidOf("B"), <<"a", "n", "n">>, <<"R", "O", "B">>, Bob \o <<" ">>, Zed}

\* the answers to the calls a submit of the form makes; a call that is not
\* made has one answer, which is not read
ProfileAnswers(form) ==
    IF ~IsBlank(form.uuid) /\ IsBlank(form.currentIgn)
    THEN ProfileResponses(form.uuid)
    ELSE {[kind |-> "throws", name |-> <<>>, uuid |-> <<>>]}

UserAnswers(form) ==
    IF ~IsBlank(form.currentIgn) /\ IsBlank(form.uuid)
    THEN UserResponses(trim(form.currentIgn))
    ELSE {[kind |-> "throws", name |-> <<>>, uuid |-> <<>>]}

UpdateAnswers(sel) == IF sel # NoSelection THEN CallOutcomes ELSE {"ok"}

\* the form is edited up to its first submit; the submits that follow are
\* made on the form the one before left
Editing == nSubmits = 0

NextPlayer ==
    \/ onAuthStateChanged("user")
    \/ PlayersSnapshot
    \/ \E i \in 1..Len(PlayerOrder) : Editing /\ handlePlayerSelect(i)
    \/ Editing /\ addNewPlayer
    \/ \E v \in IgnInputs : Editing /\ handleFormChange(v)
    \/ Editing /\ addAltAccount
    \/ \E i \in 1..MaxAlts : Editing /\ removeAltAccount(i)
    \/ \E i \in 1..MaxAlts, v \in AltInputs : Editing /\ altOnChange(i, v)
    \/ \E profile \in ProfileAnswers(playerForm),
          user \in UserAnswers(playerForm),
          upd \in UpdateAnswers(selectedPlayer), proc \in CallOutcomes :
           handleSubmit(profile, user, upd, proc)

\* the sign-in, the sign-out and the navigation of the player management page
NextAdminAuth ==
    \/ \E user \in AuthReports : onAuthStateChanged(user)
    \/ AdminNavigated
    \/ PlayersSnapshot
    \/ \E i \in 1..Len(PlayerOrder) : handlePlayerSelect(i)
    \/ addNewPlayer
    \/ \E v \in IgnInputs : handleFormChange(v)
    \/ addAltAccount
    \/ \E i \in 1..MaxAlts : removeAltAccount(i)

\* what is typed or pasted into the UUID input: three UUIDs, one of them
\* cut short by a character, and nothing
UuidInputs ==
    {UuidOf("a"), UuidOf("B"), UuidOf("c"),
     SubSeq(UuidOf("a"), 1, 35), <<>>}

\* the edits of the UUID input and the answers to its lookups
NextUuidField ==
    \/ onAuthStateChanged("user")
    \/ PlayersSnapshot
    \/ \E i \in 1..Len(PlayerOrder) : uuidTyped.n = 0 /\ handlePlayerSelect(i)
    \/ \E v \in UuidInputs : uuidOnChange(v)
    \/ \E lookup \in lookups :
           \E response \in ProfileResponses(lookup.uuid) :
               uuidResponse(lookup, response)

SpecUuidField == InitAdmin /\ [][NextUuidField]_vars

SpecAdminAuth == InitAdmin /\ [][NextAdminAuth]_vars

SpecPlayer == InitAdmin /\ [][NextPlayer]_vars

Next ==
    \/ NextFilter
    \/ NextControls
    \/ NextSnapshot
    \/ NextDrag
    \/ NextLifecycle
    \/ NextPlayer
    \/ NextAdminAuth
    \/ NextUuidField

Spec == Init /\ [][Next]_vars

(***************************************************************************)
(* Category filter (SpecFilter).                                           *)
(***************************************************************************)
IsSelect == last.op = "handleCategorySelect"

\* C1: selecting the 'all' sentinel, whatever the selection was, leaves the
\* selection exactly [ALL], which is the initial default selection.
C1_SelectAllYieldsDefault ==
    (IsSelect /\ last.arg = ALL_EVENTS_OPTION_id)
        => /\ selectedCategories = <<"all">>
           /\ selectedCategories = getDefaultTimelineState.selectedCategories

C1_Witness ==
    /\ IsSelect /\ last.arg = ALL_EVENTS_OPTION_id
    /\ Len(last.pre) = 2 /\ ~Includes(last.pre, "all")
    /\ selectedCategories = <<"all">>

\* C2: selecting a specific category c while the sentinel is selected leaves
\* the selection exactly [c].
C2_SpecificReplacesAll ==
    (IsSelect /\ last.arg # "all" /\ Includes(last.pre, "all"))
        => selectedCategories = <<last.arg>>

C2_Witness ==
    /\ IsSelect /\ last.arg = "cat2" /\ last.pre = <<"all">>
    /\ selectedCategories = <<"cat2">>

\* C3: with only specific categories selected, selecting c toggles it: c is
\* removed if present and appended if absent, and a removal that empties the
\* selection leaves exactly [ALL].
C3_ToggleSpecific ==
    (IsSelect /\ last.arg # "all" /\ ~Includes(last.pre, "all"))
        => LET c == last.arg
               without == SelectSeq(last.pre, LAMBDA id : id # c)
           IN IF c \in Range(last.pre)
              THEN IF without = <<>>
                   THEN selectedCategories = <<"all">>
                   ELSE selectedCategories = without
              ELSE selectedCategories = Append(last.pre, c)

\* the last specific category was deselected
C3_Witness ==
    /\ IsSelect /\ last.arg = "cat3" /\ last.pre = <<"cat3">>
    /\ selectedCategories = <<"all">>

(***************************************************************************)
(* Snapshots (SpecSnapshot).                                               *)
(***************************************************************************)
SortedByDate(s) ==
    \A i, j \in 1..Len(s) :
        (i < j /\ ~IsNaN(s[i].date) /\ ~IsNaN(s[j].date))
            => s[i].date <= s[j].date

\* the documents of a snapshot, each as an event carrying its document id
DocsAsEvents(docs) ==
    {[id |-> docs[i].id, date |-> docs[i].data.date] : i \in 1..Len(docs)}

\* C4: after the snapshot callback the event list is exactly the documents
\* of that snapshot, each carrying its document id, sorted ascending by
\* date, with nothing of the previous list left.
C4_SnapshotReplacesSorted ==
    last.op = "onSnapshot"
        => /\ Len(events) = Len(snapshot)
           /\ Range(events) = DocsAsEvents(snapshot)
           /\ SortedByDate(events)

\* C5: once a snapshot is applied, the event list TimelineGrid receives from
\* the page through TimelineContainer is the page's event list.
C5_GridReceivesEvents ==
    (last.op = "onSnapshot" /\ Rendered)
        => /\ "events" \in DOMAIN GridProps
           /\ GridProps.events = events

(***************************************************************************)
(* Drag (SpecDrag).                                                        *)
(***************************************************************************)
IsRelease == last.op = "handleMouseUp"

\* the column the release of card id computes from the release position
ReleasedTo(id) == ReleaseColumn(last.arg, startX[id])

\* C6: every column a drag commits through onUpdateColumn lies in 0..19,
\* however far left or right the pointer is released.
C6_CommittedColumnClamped ==
    /\ \A i \in 1..Len(calls) : calls[i].newColumn \in 0..19
    /\ \A id \in BoxIds : columns[id] \in 0..19

\* a release far right of the last column commits column 19
C6_Witness ==
    /\ IsRelease /\ last.arg = 9000
    /\ Len(calls) = 1 /\ calls[1].newColumn = 19

\* C7: a drag of card d released at a column c other than its own issues
\* exactly one update, for d and c, and no other card's column changes.
C7_OneUpdateForDraggedCard ==
    \A d \in BoxIds :
        (IsRelease /\ last.pre.dragging = {d}
                   /\ ReleasedTo(d) # last.pre.columns[d])
            => /\ Len(calls) = 1
               /\ calls[1].eventId = d
               /\ calls[1].newColumn = ReleasedTo(d)
               /\ columns[d] = ReleasedTo(d)
               /\ \A o \in BoxIds \ {d} : columns[o] = last.pre.columns[o]

\* card d2 is dropped on column 1 while d1 sits in column 19
C7_Witness ==
    /\ IsRelease /\ last.pre.dragging = {"d2"}
    /\ last.pre.columns["d2"] = 0 /\ ReleasedTo("d2") = 1
    /\ columns["d1"] = 19 /\ columns["d2"] = 1
    /\ Len(calls) = 1

\* C8: a release whose computed column is the card's own column calls no
\* update, leaves every column as it was, clears the transform and restores
\* the connector width.
C8_ReleaseOnOwnColumnReverts ==
    \A d \in BoxIds :
        (IsRelease /\ last.pre.dragging = {d}
                   /\ ReleasedTo(d) = last.pre.columns[d])
            => /\ calls = <<>>
               /\ columns = last.pre.columns
               /\ transform[d].kind = "none"
               /\ connectorWidth[d] = 210 + 220 * columns[d] - 100

\* a card in column 1 is pressed and released where it was pressed
C8_Witness ==
    /\ IsRelease /\ last.pre.dragging = {"d1"} /\ last.pre.atPress
    /\ last.pre.columns["d1"] = 1 /\ columns["d1"] = 1
    /\ calls = <<>>

(***************************************************************************)
(* Zoom and reset (SpecControls).                                          *)
(***************************************************************************)
\* C9: after handleReset the spacing and the selection are the defaults, the
\* reset signal handed to the grid is one more than before, and the event
\* list and the dragging and show-dates flags are as before.
C9_ResetRestoresDefaults ==
    last.op = "handleReset"
        => /\ yearSpacing = DEFAULT_YEAR_SPACING
           /\ selectedCategories = <<"all">>
           /\ resetKey = last.pre.resetKey + 1
           /\ GridProps.onReset = resetKey
           /\ events = last.pre.events
           /\ isDraggingEnabled = last.pre.isDraggingEnabled
           /\ showEventDates = last.pre.showEventDates

C9_Witness ==
    /\ last.op = "handleReset"
    /\ last.pre.ys # DEFAULT_YEAR_SPACING
    /\ last.pre.sel = <<"cat1">>
    /\ last.pre.events # <<>>
    /\ last.pre.isDraggingEnabled /\ ~last.pre.showEventDates
    /\ resetKey = 2

\* on the whole range: an unclamped zoom-in is undone by zoom-out, and both
\* stay in the range
ZoomOnRange ==
    \A x \in MIN_YEAR_SPACING..MAX_YEAR_SPACING :
        /\ x * ZOOM_FACTOR <= MAX_YEAR_SPACING => zoomOut(zoomIn(x)) = x
        /\ zoomIn(x) \in MIN_YEAR_SPACING..MAX_YEAR_SPACING
        /\ zoomOut(x) \in MIN_YEAR_SPACING..MAX_YEAR_SPACING

\* C10: zoom-in then zoom-out returns the spacing when the zoom-in did not
\* clamp; zoom-in at the maximum and zoom-out at the minimum change nothing;
\* the spacing never leaves [min, max].
C10_ZoomReversibleAndClamped ==
    /\ yearSpacing \in MIN_YEAR_SPACING..MAX_YEAR_SPACING
    /\ (last.op = "handleZoomOut" /\ last.pre.prevOp = "handleZoomIn"
            /\ last.pre.prevYs * ZOOM_FACTOR <= MAX_YEAR_SPACING)
          => yearSpacing = last.pre.prevYs
    /\ (last.op = "handleZoomIn" /\ last.pre.ys = MAX_YEAR_SPACING)
          => yearSpacing = MAX_YEAR_SPACING
    /\ (last.op = "handleZoomOut" /\ last.pre.ys = MIN_YEAR_SPACING)
          => yearSpacing = MIN_YEAR_SPACING
    /\ ZoomOnRange

\* an unclamped zoom-in from a non-default spacing was undone
C10_Witness ==
    /\ last.op = "handleZoomOut" /\ last.pre.prevOp = "handleZoomIn"
    /\ last.pre.prevYs = 75 /\ last.pre.ys = 150
    /\ yearSpacing = 75

\* zoom-in at the maximum stayed at the maximum
C10_WitnessClamp ==
    /\ last.op = "handleZoomIn" /\ last.pre.ys = MAX_YEAR_SPACING
    /\ yearSpacing = MAX_YEAR_SPACING

(***************************************************************************)
(* Player form (SpecPlayer).                                               *)
(***************************************************************************)
IsSubmit == last.op = "handleSubmit"

SelfAltError == "A player cannot be their own alt account"
DuplicateAltError == "Duplicate alt accounts are not allowed"

\* the submit called neither updateDoc nor updatePlayerData, and the
\* collection is as it was
NothingWritten ==
    /\ ~Includes(submitCalls, "updateDoc")
    /\ ~Includes(submitCalls, "updatePlayerData")
    /\ playerDocs = last.pre.docs

\* the submit needed no lookup, or the lookup it made was answered
LookupAnswered == last.pre.lookup \in {"none", "ok"}

\* the canonical UUID an alt entry stands for: a UUID whatever its case and
\* padding, else the UUID of the known player who has or had that name
KnownByName(e, ps) == {k \in 1..Len(ps) : MatchesName(ps[k], trim(e))}

Canonical(e, ps) ==
    IF uuidRegex(trim(e)) THEN toLowerCase(trim(e))
    ELSE IF KnownByName(e, ps) # {}
         THEN toLowerCase(ps[CHOOSE k \in KnownByName(e, ps) : TRUE].uuid)
         ELSE toLowerCase(trim(e))

\* an entry of the alt list is, as text, the UUID or the current name of
\* the form
OwnIdentityAmongAlts(form) ==
    \E k \in 1..Len(form.altAccounts) :
        /\ ~IsBlank(form.altAccounts[k])
        /\ \/ form.altAccounts[k] = trim(form.uuid)
           \/ form.altAccounts[k] = trim(form.currentIgn)

\* an entry of the alt list stands for the player of the form: for its UUID,
\* or for its current name
OwnAccountAmongAlts(form, ps) ==
    \E k \in 1..Len(form.altAccounts) :
        /\ ~IsBlank(form.altAccounts[k])
        /\ \/ Canonical(form.altAccounts[k], ps) = toLowerCase(trim(form.uuid))
           \/ toLowerCase(trim(form.altAccounts[k]))
                  = toLowerCase(trim(form.currentIgn))

\* C11: a submit whose alt list holds the player's own UUID or own current
\* name ends with the self-alt error and writes nothing.
C11_SelfAltRejected ==
    (IsSubmit /\ LookupAnswered /\ OwnAccountAmongAlts(last.pre.form, players))
        => /\ adminError = SelfAltError
           /\ NothingWritten

\* what holds of the self-reference test: an entry that is the trimmed UUID
\* or the trimmed name of the form character for character is rejected
TextualSelfAltRejected ==
    (IsSubmit /\ OwnIdentityAmongAlts(last.pre.form))
        => /\ NothingWritten
           /\ success = ""
           /\ LookupAnswered => adminError = SelfAltError

\* an entry of the alt list occurs twice
SameEntryTwice(form) ==
    \E j, k \in 1..Len(form.altAccounts) :
        /\ j < k
        /\ ~IsBlank(form.altAccounts[j])
        /\ form.altAccounts[j] = form.altAccounts[k]

\* the form names a player: its name or its UUID is filled in
NamesPlayer(form) == ~IsBlank(form.currentIgn) \/ ~IsBlank(form.uuid)

ResolveToSamePlayer(form, ps) ==
    \E j, k \in 1..Len(form.altAccounts) :
        /\ j < k
        /\ ~IsBlank(form.altAccounts[j]) /\ ~IsBlank(form.altAccounts[k])
        /\ Canonical(form.altAccounts[j], ps)
               = Canonical(form.altAccounts[k], ps)

\* C13: a submit is rejected whenever two entries of its alt list stand for
\* the same canonical UUID, also when the two entries differ as text.
C13_ResolvedDuplicateRejected ==
    (IsSubmit /\ LookupAnswered /\ NamesPlayer(last.pre.form)
        /\ ResolveToSamePlayer(last.pre.form, players))
        => adminError \in {DuplicateAltError, SelfAltError}

\* C14: a submit that ends with an error message has left every document of
\* the collection as it was.
C14_FailureLeavesStoreUnchanged ==
    (IsSubmit /\ adminError # "") => playerDocs = last.pre.docs

LookupErrors ==
    {"Invalid UUID provided", "Failed to fetch player data from UUID",
     "Invalid IGN provided", "Failed to fetch player data from IGN"}

\* C15: a submit whose lookup rejects or answers not-ok ends with a lookup
\* error, has made that one fetch and no other call, and writes nothing.
C15_LookupFailureStopsSubmit ==
    (IsSubmit /\ last.pre.lookup \in {"notOk", "throws"})
        => /\ adminError \in LookupErrors
           /\ success = ""
           /\ Len(submitCalls) = 1
           /\ submitCalls[1] \in {"fetch profile", "fetch user"}
           /\ NothingWritten

\* Bob was submitted without a name and the profile service answered not-ok
C15_Witness ==
    /\ IsSubmit
    /\ last.pre.selected = "p2"
    /\ IsBlank(last.pre.form.currentIgn)
    /\ last.pre.lookup = "notOk"
    /\ adminError = "Invalid UUID provided"
    /\ submitCalls = <<"fetch profile">>

IsAltChange == last.op = "altOnChange"

\* the known players one of whose names is v, letter case aside
NamedLike(v, ps) ==
    {k \in 1..Len(ps) :
        \E n \in {ps[k].currentIgn} \cup Range(ps[k].pastIgns) :
            toLowerCase(n) = toLowerCase(v)}

\* C16: the entry stored for a typed alt candidate is the value itself when
\* it has the UUID format; else the UUID of a known player whose current or
\* past name equals it, letter case aside; else, no player matching, the
\* value itself.
C16_AltCandidateResolved ==
    IsAltChange =>
        LET v == last.pre.inputValue
            stored == playerForm.altAccounts[last.pre.index]
        IN /\ uuidRegex(v) => stored = v
           /\ (~uuidRegex(v) /\ NamedLike(v, players) # {})
                 => \E k \in NamedLike(v, players) : stored = players[k].uuid
           /\ (~uuidRegex(v) /\ NamedLike(v, players) = {}) => stored = v

\* 'ROB', a past name of Bob in another case, was stored as Bob's UUID
C16_Witness ==
    /\ IsAltChange
    /\ last.pre.inputValue = <<"R", "O", "B">>
    /\ playerForm.altAccounts[last.pre.index] = UuidOf("b")

(***************************************************************************)
(* Authentication gates (SpecLifecycle, SpecAdminAuth).                    *)
(***************************************************************************)
\* C17: when the effect of withAuth runs and the 'isAuthenticated' item is
\* absent, router.replace('/') is called; when the item is present it is
\* not; before the effect ran there is no redirect.
C17_FlagGatesRedirect ==
    /\ ~authChecked => redirect = NoRedirect
    /\ last.op = "withAuthEffect"
          => IF last.arg = NoItem THEN redirect = "/"
                                  ELSE redirect = NoRedirect

\* the page mounted with no item stored and was redirected
C17_Witness ==
    /\ last.op = "withAuthEffect"
    /\ last.arg = NoItem
    /\ redirect = "/"

\* the page mounted with the item stored and was not redirected
C17_WitnessPresent ==
    /\ last.op = "withAuthEffect"
    /\ last.arg = "true"
    /\ redirect = NoRedirect

\* C18: the page shows its content only once a user was reported; while
\* nothing was reported it shows the loading placeholder; when no user is
\* reported it has called router.replace('/admin/password') and shows
\* nothing.
C18_ContentOnlyWhenSignedIn ==
    /\ AdminView = "content" => isAuthenticated
    /\ authReport = "unknown" => AdminView = "loading"
    /\ authReport = "none"
          => adminRedirect = "/admin/password" /\ AdminView = "nothing"

(***************************************************************************)
(* The events subscription (SpecLifecycle).                                *)
(***************************************************************************)
\* C19: once the page is unmounted unsubscribe has been called exactly once,
\* and no step after the unmount changes the event list, the loading flag
\* or the error message.
C19_UnmountTearsDown ==
    [][/\ ~mounted' => unsubscribeCalls' = 1
       /\ ~mounted => UNCHANGED <<events, isLoading, error>>]_vars

\* the page was unmounted after a snapshot had filled the list
C19_Witness ==
    /\ ~mounted
    /\ unsubscribeCalls = 1
    /\ listening = "unsubscribed"
    /\ nSnapshots > 0 /\ events # <<>>

\* C20: after the error callback the error message is shown, the event list
\* is the one held before, the page is no longer loading, and the listener
\* is not attached again.
C20_SubscriptionErrorSurfaced ==
    /\ last.op = "onSnapshotError"
          => /\ error = "Failed to load updates. Please refresh the page."
             /\ ErrorShown
             /\ events = last.pre
             /\ ~isLoading
             /\ listening = "failed"
    /\ error = "Failed to load updates. Please refresh the page."
          => listening # "active"

\* the error came after a snapshot; the list was kept and the zoom still
\* answers
C20_Witness ==
    /\ error = "Failed to load updates. Please refresh the page."
    /\ ErrorShown
    /\ events # <<>>
    /\ listening = "failed"
    /\ last.op = "handleZoomIn"

(***************************************************************************)
(* Positions along the year axis (SpecControls).                           *)
(***************************************************************************)
ValidDates == 1..MaxDate

\* on the whole range of the spacing, the earlier of two dates lies left
PositionMonotonicOnRange ==
    \A s \in MIN_YEAR_SPACING..MAX_YEAR_SPACING :
        \A d1, d2 \in ValidDates :
            d1 < d2 => ScaledPosition(d1, s) < ScaledPosition(d2, s)

\* C21: under every spacing of [min, max], and under the spacing the grid
\* is handed after any zoom or reset, the earlier of two dates is placed
\* strictly left of the later one.
C21_PositionStrictlyMonotonic ==
    /\ PositionMonotonicOnRange
    /\ \A d1, d2 \in ValidDates :
           d1 < d2 => GridPosition(d1) < GridPosition(d2)

\* zoomed out to the minimum, two dates of one year are still apart
C21_Witness ==
    /\ last.op = "handleZoomOut"
    /\ yearSpacing = MIN_YEAR_SPACING
    /\ 2 \div UnitsPerYear = 3 \div UnitsPerYear
    /\ GridPosition(3) - GridPosition(2) = MIN_YEAR_SPACING

(***************************************************************************)
(* The order of a drag (SpecDrag).                                         *)
(***************************************************************************)
\* a card enters the dragging state only by a press on it, made while
\* dragging is enabled
DragStartsOnEnabledPress ==
    \A id \in BoxIds :
        (isDragging'[id] /\ ~isDragging[id])
            => /\ last'.op = "handleMouseDown" /\ last'.arg = id
               /\ isDraggingEnabled
               /\ ~pointerDown /\ pointerDown'

\* a pointer move changes the transform and the connector width of the
\* cards being dragged, and nothing else of any card
MoveChangesOffsetOnly ==
    last'.op = "handleMouseMove"
        => /\ UNCHANGED <<columns, isDragging, startX>>
           /\ calls' = <<>>
           /\ \A id \in BoxIds :
                  ~isDragging[id] => /\ transform'[id] = transform[id]
                                     /\ connectorWidth'[id] = connectorWidth[id]

\* a column changes only with an update, and an update is issued only by
\* the release that ends a press, once, for a card that was being dragged
UpdateOnlyOnRelease ==
    /\ last'.op \in {"handleMouseDown", "handleMouseMove"} => calls' = <<>>
    /\ (calls' # calls /\ calls' # <<>>) => last'.op = "handleMouseUp"
    /\ last'.op = "handleMouseUp"
          => /\ pointerDown /\ ~pointerDown'
             /\ Len(calls') <= 1
             /\ calls' = <<>> => columns' = columns
             /\ calls' # <<>>
                   => /\ isDragging[calls'[1].eventId]
                      /\ columns' = [columns EXCEPT
                             ![calls'[1].eventId] = calls'[1].newColumn]
    /\ columns' # columns => last'.op = "handleMouseUp"

\* the release leaves no card in the dragging state, and the offset a move
\* gave is gone
ReleaseEndsDrag ==
    last'.op = "handleMouseUp"
        => \A id \in BoxIds : /\ ~isDragging'[id]
                               /\ isDragging[id] => transform'[id] = NoTransform

\* C22: a drag is press, move, release: a press starts a drag only while
\* dragging is enabled; a move changes the visual offset only, never a
\* column; the column update is issued on release only, at most once per
\* press; after the release no card is dragging until the next press.
C22_DragPressMoveRelease ==
    [][/\ DragStartsOnEnabledPress
       /\ MoveChangesOffsetOnly
       /\ UpdateOnlyOnRelease
       /\ ReleaseEndsDrag]_vars

\* card d1 was pressed, moved and released on column 19: one update, the
\* card at rest in its new column
C22_Witness ==
    /\ IsRelease /\ last.arg = 9000
    /\ last.pre.dragging = {"d1"} /\ last.pre.columns["d1"] = 0
    /\ Len(calls) = 1 /\ calls[1].eventId = "d1"
    /\ columns["d1"] = 19
    /\ ~isDragging["d1"] /\ ~pointerDown
    /\ transform["d1"] = NoTransform

(***************************************************************************)
(* The shape of the category selection (SpecFilter).                       *)
(***************************************************************************)
NoDuplicateId(s) == \A i, j \in 1..Len(s) : s[i] = s[j] => i = j

\* C23: after any sequence of handleCategorySelect and handleReset calls the
\* selection is not empty, holds no id twice, and holds the 'all' sentinel
\* only alone.
C23_SelectionWellFormed ==
    /\ selectedCategories # <<>>
    /\ NoDuplicateId(selectedCategories)
    /\ Includes(selectedCategories, "all") => selectedCategories = <<"all">>

\* after a reset, a third category was added to two selected ones
C23_Witness ==
    /\ IsSelect /\ resetKey > 0
    /\ Len(last.pre) = 2
    /\ Len(selectedCategories) = 3
    /\ ~Includes(selectedCategories, "all")

(***************************************************************************)
(* The end of a submit (SpecPlayer).                                       *)
(***************************************************************************)
\* exactly one of the two messages is set
OneMessage == (adminError # "") # (success # "")

\* the success message comes with updatePlayerData as the last call made,
\* the form reset and the selection cleared
SuccessResets ==
    success # ""
        => /\ submitCalls # <<>>
           /\ submitCalls[Len(submitCalls)] = "updatePlayerData"
           /\ playerForm = initialPlayerForm
           /\ selectedPlayer = NoSelection

\* an error leaves the selection as it was
ErrorKeepsSelection == adminError # "" => selectedPlayer = last.pre.selected

\* an error leaves the form as it was
ErrorKeepsForm == adminError # "" => playerForm = last.pre.form

\* C24: a completed handleSubmit leaves exactly one of the error and the
\* success message set; success comes only after updatePlayerData, with the
\* form reset and the selection cleared; an error leaves the form contents
\* and the selection as they were.
C24_SubmitEndsInOneMessage ==
    IsSubmit => /\ OneMessage
                /\ SuccessResets
                /\ ErrorKeepsSelection
                /\ ErrorKeepsForm

\* what holds of the end of a submit: all of the above but the form, and of
\* the form that an error changes at most the field a lookup filled in
SubmitEndsInOneMessageFormAside ==
    IsSubmit
        => /\ OneMessage
           /\ SuccessResets
           /\ ErrorKeepsSelection
           /\ (adminError # "" /\ last.pre.lookup # "ok") => playerForm = last.pre.form
           /\ adminError # ""
                 => \/ playerForm = last.pre.form
                    \/ /\ IsBlank(last.pre.form.uuid)
                       /\ playerForm = [last.pre.form EXCEPT !.uuid = playerForm.uuid]
                    \/ /\ IsBlank(last.pre.form.currentIgn)
                       /\ playerForm = [last.pre.form EXCEPT
                                           !.currentIgn = playerForm.currentIgn]

(***************************************************************************)
(* Lookups of the UUID input (SpecUuidField).                              *)
(***************************************************************************)
\* the name the profile service has for a UUID
NameLookedUp(uuid) ==
    (CHOOSE a \in Accounts : a.uuid = toLowerCase(uuid)).name

\* every response has been applied, and the last edit of the UUID input
\* made a lookup
AllResponsesApplied == lookups = {} /\ uuidTyped.answer # "none"

\* C25: once every response to the lookups of successive edits of the UUID
\* input has been applied, the uuid of the form is the value typed last
\* and, its lookup answered ok, currentIgn is the name looked up for it, in
\* whatever order the responses arrived.
C25_LastUuidEditWins ==
    AllResponsesApplied
        => /\ playerForm.uuid = uuidTyped.value
           /\ uuidTyped.answer = "ok"
                 => playerForm.currentIgn = NameLookedUp(uuidTyped.value)

====
